---- MODULE Spec2Model ----
(***************************************************************************)
(* Model of src/models.py: the SQLAlchemy schema of an Instagram-like      *)
(* domain (users, follower, post, comment, media), the SQLite database     *)
(* the script creates, the ORM relationships with their cascades, and the  *)
(* graphviz diagram generator.                                             *)
(*                                                                         *)
(* Two ways of writing to the database are modelled:                       *)
(*   - Core statements on the tables (INSERT / DELETE), executed by the    *)
(*     SQLite engine of line 204;                                          *)
(*   - the ORM unit of work (Session.add / Session.delete), which first    *)
(*     configures the mappers of all the declared classes.                 *)
(***************************************************************************)
EXTENDS Integers, Sequences, FiniteSets, TLC

VARIABLES
    tables,   \* names of the tables present in instagram.db
    rows,     \* table name -> set of stored rows
    files,    \* working directory: the dot source 'diagram' and 'diagram.png'
    last      \* the last operation executed and how it ended

vars == <<tables, rows, files, last>>

(***************************************************************************)
(* Bounds of the model.                                                    *)
(***************************************************************************)
\* Largest number of rows stored in the database, and largest id handed out.
MaxRows == 2

(***************************************************************************)
(* Python None / SQL NULL, per column family.                              *)
(***************************************************************************)
NullStr == "NULL"
NullInt == 0

(***************************************************************************)
(* The schema (declarative classes, lines 21-108).                         *)
(***************************************************************************)
MediaType == {"IMAGE", "VIDEO", "GIF"}

TableNames == {"users", "follower", "post", "comment", "media"}

Col(n, t, isPk, isNullable, isUnique, ref, dflt) ==
    [name |-> n, type |-> t, pk |-> isPk, nullable |-> isNullable,
     unique |-> isUnique, fk |-> ref, default |-> dflt]

UserColumns ==
    << Col("id", "Integer", TRUE, FALSE, FALSE, "", ""),
       Col("username", "String", FALSE, FALSE, TRUE, "", ""),
       Col("firstname", "String", FALSE, FALSE, FALSE, "", ""),
       Col("lastname", "String", FALSE, FALSE, FALSE, "", ""),
       Col("email", "String", FALSE, FALSE, TRUE, "", "") >>

FollowerColumns ==
    << Col("id", "Integer", TRUE, FALSE, FALSE, "", ""),
       Col("user_from_id", "Integer", FALSE, FALSE, FALSE, "users", ""),
       Col("user_to_id", "Integer", FALSE, FALSE, FALSE, "users", ""),
       Col("followed_at", "DateTime", FALSE, TRUE, FALSE, "", "utcnow") >>

PostColumns ==
    << Col("id", "Integer", TRUE, FALSE, FALSE, "", ""),
       Col("user_id", "Integer", FALSE, FALSE, FALSE, "users", ""),
       Col("caption", "Text", FALSE, TRUE, FALSE, "", ""),
       Col("created_at", "DateTime", FALSE, TRUE, FALSE, "", "utcnow") >>

CommentColumns ==
    << Col("id", "Integer", TRUE, FALSE, FALSE, "", ""),
       Col("comment_text", "Text", FALSE, FALSE, FALSE, "", ""),
       Col("author_id", "Integer", FALSE, FALSE, FALSE, "users", ""),
       Col("post_id", "Integer", FALSE, FALSE, FALSE, "post", ""),
       Col("created_at", "DateTime", FALSE, TRUE, FALSE, "", "utcnow") >>

MediaColumns ==
    << Col("id", "Integer", TRUE, FALSE, FALSE, "", ""),
       Col("type", "Enum", FALSE, FALSE, FALSE, "", ""),
       Col("url", "String", FALSE, FALSE, FALSE, "", ""),
       Col("post_id", "Integer", FALSE, FALSE, FALSE, "post", ""),
       Col("uploaded_at", "DateTime", FALSE, TRUE, FALSE, "", "utcnow") >>

Columns ==
    [users |-> UserColumns, follower |-> FollowerColumns, post |-> PostColumns,
     comment |-> CommentColumns, media |-> MediaColumns]

ColSet(t) == {Columns[t][i] : i \in 1..Len(Columns[t])}

\* The foreign-key columns of the schema, as <<table, column, referenced table>>.
ForeignKeys ==
    UNION {{<<t, c.name, c.fk>> : c \in {d \in ColSet(t) : d.fk # ""}} : t \in TableNames}

IsNull(c, v) == IF c.type = "Integer" THEN v = NullInt ELSE v = NullStr

(***************************************************************************)
(* The ORM relationships and their cascades (lines 38-54 and 81-82).       *)
(***************************************************************************)
Rel(p, n, ch, fks, casc) ==
    [parent |-> p, name |-> n, child |-> ch, foreign_keys |-> fks, cascade |-> casc]

Relationships ==
    { Rel("users", "posts", "post", {}, "all, delete-orphan"),
      Rel("users", "comments", "comment", {}, "all, delete-orphan"),
      Rel("users", "media", "media", {}, "all, delete-orphan"),
      Rel("users", "following", "follower", {"user_from_id"}, "all, delete-orphan"),
      Rel("users", "followers", "follower", {"user_to_id"}, "all, delete-orphan"),
      Rel("post", "comments", "comment", {}, "all, delete-orphan"),
      Rel("post", "media", "media", {}, "all, delete-orphan") }

\* The columns of the child table on which the relationship can be joined to its
\* parent: the child's foreign keys to the parent, narrowed by foreign_keys=.
JoinColumns(r) ==
    {fk[2] : fk \in {k \in ForeignKeys :
                        /\ k[1] = r.child
                        /\ k[3] = r.parent
                        /\ (r.foreign_keys = {} \/ k[2] \in r.foreign_keys)}}

\* Mapper configuration, run on the first use of any mapped class: every
\* relationship of every class needs exactly one join column.  A relationship
\* with none raises NoForeignKeysError and no mapper of the registry is usable.
ConfigureMappers ==
    IF \A r \in Relationships : Cardinality(JoinColumns(r)) = 1
    THEN "configured"
    ELSE "NoForeignKeysError"

(***************************************************************************)
(* The SQLite database of line 204 and the statements run on it.           *)
(***************************************************************************)
\* create_engine('sqlite:///instagram.db') installs no 'PRAGMA foreign_keys=ON'
\* and the DDL carries no ON DELETE clause: SQLite leaves foreign keys unchecked.
ForeignKeysEnforced == FALSE

SetMax(S) == CHOOSE m \in S : \A x \in S : x <= m

Ids(rs) == {r.id : r \in rs}

\* INTEGER PRIMARY KEY without AUTOINCREMENT: the largest rowid plus one.
NextId(rs) == IF rs = {} THEN 1 ELSE SetMax(Ids(rs)) + 1

TotalRows(db) ==
    Cardinality(db["users"]) + Cardinality(db["follower"]) + Cardinality(db["post"])
        + Cardinality(db["comment"]) + Cardinality(db["media"])

\* BindOK with the type column declared String instead of Enum(MediaType).
BindAny(c, v) == TRUE

\* Bind processing of a value: Enum(MediaType) looks the value up among the
\* names of the enumeration (None passes through); other types accept it.
BindOK(c, v) ==
    IF c.type = "Enum" THEN v = NullStr \/ v \in MediaType ELSE TRUE

BindAllOK(t, vals) ==
    \A c \in ColSet(t) : c.pk \/ BindOK(c, vals[c.name])

\* Column defaults (default=datetime.datetime.utcnow) fill the absent values.
ApplyDefaults(t, vals) ==
    [n \in DOMAIN vals |->
        LET c == CHOOSE d \in ColSet(t) : d.name = n
        IN  IF c.default # "" /\ IsNull(c, vals[n]) THEN c.default ELSE vals[n]]

NotNullOK(t, vals) ==
    \A c \in ColSet(t) : c.pk \/ c.nullable \/ ~IsNull(c, vals[c.name])

\* UniqueOK with the unique index on email forgotten.
UniqueOKUsernameOnly(t, vals, rs) ==
    \A c \in ColSet(t) :
        (c.unique /\ c.name = "username") => \A r \in rs : r[c.name] # vals[c.name]

UniqueOK(t, vals, rs) ==
    \A c \in ColSet(t) : c.unique => \A r \in rs : r[c.name] # vals[c.name]

ForeignKeyOK(t, vals, db) ==
    \A c \in ColSet(t) : c.fk # "" => \E r \in db[c.fk] : r.id = vals[c.name]

\* Rows of other tables that reference row id of table t.
Referencing(t, id, db) ==
    UNION {{<<fk[1], r.id>> : r \in {q \in db[fk[1]] : q[fk[2]] = id}} :
           fk \in {k \in ForeignKeys : k[3] = t}}

\* How 'INSERT INTO t' of vals (id left to the engine) ends: the bind processors
\* run before the statement is sent; SQLite checks NOT NULL, then UNIQUE, then
\* (when enforced) the foreign keys.
InsertOutcome(t, vals, tbls, db) ==
    IF ~BindAllOK(t, vals) THEN "StatementError"
    ELSE IF t \notin tbls THEN "OperationalError"
    ELSE IF ~NotNullOK(t, vals) THEN "IntegrityError: NOT NULL"
    ELSE IF ~UniqueOK(t, vals, db[t]) THEN "IntegrityError: UNIQUE"
    ELSE IF ForeignKeysEnforced /\ ~ForeignKeyOK(t, vals, db)
         THEN "IntegrityError: FOREIGN KEY"
    ELSE "ok"

InsertRows(t, vals, tbls, db) ==
    IF InsertOutcome(t, vals, tbls, db) = "ok"
    THEN [db EXCEPT ![t] = @ \cup {[id |-> NextId(db[t])] @@ ApplyDefaults(t, vals)}]
    ELSE db

\* How 'DELETE FROM t WHERE id = :id' ends.
DeleteOutcome(t, id, tbls, db) ==
    IF t \notin tbls THEN "OperationalError"
    ELSE IF id \notin Ids(db[t]) THEN "norow"
    ELSE IF ForeignKeysEnforced /\ Referencing(t, id, db) # {}
         THEN "IntegrityError: FOREIGN KEY"
    ELSE "ok"

DeleteRows(t, id, tbls, db) ==
    IF DeleteOutcome(t, id, tbls, db) = "ok"
    THEN [db EXCEPT ![t] = {r \in @ : r.id # id}]
    ELSE db

(***************************************************************************)
(* The ORM unit of work: Session.delete with the relationships' cascades.  *)
(***************************************************************************)
\* One round of the delete cascade: the children, through every relationship
\* whose cascade includes delete, of the rows already marked.
HasDeleteCascade(rel) == rel.cascade \in {"all", "all, delete-orphan", "delete"}

CascadeStep(marked, db) ==
    marked \cup
    UNION {{<<rel.child, r.id>> :
                r \in {q \in db[rel.child] :
                          \E c \in JoinColumns(rel) : <<rel.parent, q[c]>> \in marked}} :
           rel \in {x \in Relationships : HasDeleteCascade(x)}}

RECURSIVE CascadeClosure(_, _)
CascadeClosure(marked, db) ==
    LET next == CascadeStep(marked, db)
    IN  IF next = marked THEN marked ELSE CascadeClosure(next, db)

SessionDeleteRows(t, id, db) ==
    LET doomed == CascadeClosure({<<t, id>>}, db)
    IN  [x \in TableNames |-> {r \in db[x] : <<x, r.id>> \notin doomed}]

(***************************************************************************)
(* The diagram generator (lines 116-198).  Python strings that the code    *)
(* takes apart are sequences of tokens: 'ID: int' is <<"ID", ":", " ",     *)
(* "int">>.                                                                *)
(***************************************************************************)
\* str.split(sep): the pieces between the separators.
RECURSIVE SplitFrom(_, _, _, _)
SplitFrom(s, sep, i, cur) ==
    IF i > Len(s) THEN <<cur>>
    ELSE IF s[i] = sep THEN <<cur>> \o SplitFrom(s, sep, i + 1, <<>>)
    ELSE SplitFrom(s, sep, i + 1, Append(cur, s[i]))

Split(s, sep) == SplitFrom(s, sep, 1, <<>>)

\* str.strip(): without the leading and trailing blanks.
RECURSIVE Strip(_)
Strip(s) ==
    IF s = <<>> THEN s
    ELSE IF Head(s) = " " THEN Strip(Tail(s))
    ELSE IF s[Len(s)] = " " THEN Strip(SubSeq(s, 1, Len(s) - 1))
    ELSE s

\* graphviz.Digraph('Instagram_Model', format='png') with its graph attributes.
NewDigraph ==
    [name |-> "Instagram_Model", format |-> "png",
     graph_attr |-> [rankdir |-> "LR", splines |-> "ortho", bgcolor |-> "white"],
     body |-> <<>>]

\* One <TR> of the label: the field name, twice (PORT and text), and its type.
BodyRow(col) ==
    LET parts == Split(col, ":")
        field_name == Strip(parts[1])
        field_type == Strip(parts[2])
    IN  [port |-> field_name, text |-> field_name, type |-> field_type]

RECURSIVE BodyRows(_)
BodyRows(columns) ==
    IF columns = <<>> THEN <<>>
    ELSE <<BodyRow(Head(columns))>> \o BodyRows(Tail(columns))

\* create_table_node: appends the node with its HTML-like label to the graph.
CreateTableNode(dot, name, columns) ==
    [dot EXCEPT !.body =
        Append(@, [kind |-> "node", name |-> name,
                   label |-> [header |-> name, rows |-> BodyRows(columns)],
                   shape |-> "plaintext"])]

\* The five calls of create_table_node (lines 146-181).
DiagramTables ==
    << [name |-> "User",
        columns |-> << <<"ID", ":", " ", "int">>,
                       <<"username", ":", " ", "string">>,
                       <<"firstname", ":", " ", "string">>,
                       <<"lastname", ":", " ", "string">>,
                       <<"email", ":", " ", "string">> >>],
       [name |-> "Follower",
        columns |-> << <<"user_from_id", ":", " ", "int">>,
                       <<"user_to_id", ":", " ", "int">>,
                       <<"followed_at", ":", " ", "datetime">> >>],
       [name |-> "Post",
        columns |-> << <<"ID", ":", " ", "int">>,
                       <<"user_id", ":", " ", "int">>,
                       <<"caption", ":", " ", "text">>,
                       <<"created_at", ":", " ", "datetime">> >>],
       [name |-> "Comment",
        columns |-> << <<"ID", ":", " ", "int">>,
                       <<"comment_text", ":", " ", "string">>,
                       <<"author_id", ":", " ", "int">>,
                       <<"post_id", ":", " ", "int">>,
                       <<"created_at", ":", " ", "datetime">> >>],
       [name |-> "Media",
        columns |-> << <<"ID", ":", " ", "int">>,
                       <<"type", ":", " ", "enum">>,
                       <<"url", ":", " ", "string">>,
                       <<"post_id", ":", " ", "int">>,
                       <<"uploaded_at", ":", " ", "datetime">> >>] >>

\* DiagramEdges with the edge of Comment.post_id drawn to User instead of Post.
DiagramEdgesMisdrawn ==
    << [tail |-> <<"Follower", ":", "user_from_id">>, head |-> <<"User", ":", "ID">>],
       [tail |-> <<"Follower", ":", "user_to_id">>, head |-> <<"User", ":", "ID">>],
       [tail |-> <<"Post", ":", "user_id">>, head |-> <<"User", ":", "ID">>],
       [tail |-> <<"Comment", ":", "author_id">>, head |-> <<"User", ":", "ID">>],
       [tail |-> <<"Comment", ":", "post_id">>, head |-> <<"User", ":", "ID">>],
       [tail |-> <<"Media", ":", "post_id">>, head |-> <<"Post", ":", "ID">>] >>

\* The six calls of dot.edge (lines 185-195).
DiagramEdges ==
    << [tail |-> <<"Follower", ":", "user_from_id">>, head |-> <<"User", ":", "ID">>],
       [tail |-> <<"Follower", ":", "user_to_id">>, head |-> <<"User", ":", "ID">>],
       [tail |-> <<"Post", ":", "user_id">>, head |-> <<"User", ":", "ID">>],
       [tail |-> <<"Comment", ":", "author_id">>, head |-> <<"User", ":", "ID">>],
       [tail |-> <<"Comment", ":", "post_id">>, head |-> <<"Post", ":", "ID">>],
       [tail |-> <<"Media", ":", "post_id">>, head |-> <<"Post", ":", "ID">>] >>

\* An edge endpoint 'node:port' as graphviz reads it.
Endpoint(s) ==
    LET parts == Split(s, ":")
    IN  [node |-> parts[1], port |-> IF Len(parts) > 1 THEN parts[2] ELSE <<>>]

\* dot.edge(tail, head, arrowhead=...).
AddEdge(dot, tail, head, arrowhead) ==
    [dot EXCEPT !.body =
        Append(@, [kind |-> "edge", tail |-> Endpoint(tail), head |-> Endpoint(head),
                   arrowhead |-> arrowhead])]

RECURSIVE AddNodes(_, _)
AddNodes(dot, ts) ==
    IF ts = <<>> THEN dot
    ELSE AddNodes(CreateTableNode(dot, Head(ts).name, Head(ts).columns), Tail(ts))

RECURSIVE AddEdges(_, _)
AddEdges(dot, es) ==
    IF es = <<>> THEN dot
    ELSE AddEdges(AddEdge(dot, Head(es).tail, Head(es).head, "none"), Tail(es))

\* The graph as it stands at line 198, before rendering.
BuildGraph == AddEdges(AddNodes(NewDigraph, DiagramTables), DiagramEdges)

WriteFile(fs, path, content) ==
    [p \in DOMAIN fs \cup {path} |-> IF p = path THEN content ELSE fs[p]]

RemoveFile(fs, path) == [p \in DOMAIN fs \ {path} |-> fs[p]]

\* Render with the drawing appended to the file instead of replacing it.
RenderAppend(fs, dot) ==
    LET png == "diagram." \o dot.format
        old == IF png \in DOMAIN fs THEN fs[png] ELSE <<>>
    IN  RemoveFile(WriteFile(WriteFile(fs, "diagram", dot.body), png, old \o dot.body),
                   "diagram")

\* dot.render(filename='diagram', cleanup=True): saves the source as 'diagram',
\* has it drawn into 'diagram.png', and removes the source.
Render(fs, dot) ==
    LET saved == WriteFile(fs, "diagram", dot.body)
        drawn == WriteFile(saved, "diagram." \o dot.format, dot.body)
    IN  RemoveFile(drawn, "diagram")

(***************************************************************************)
(* The values the statements are tried with.                               *)
(***************************************************************************)
UserNames == {"ana", "bob"}
Emails == {"ana@x.io", "bob@x.io"}

\* A foreign key value: the id of a stored row or the first id not stored.
RefIds(rs) == Ids(rs) \cup {NextId(rs)}

\* A row to insert with one of its values left out.
Without(t, vals, n) ==
    LET c == CHOOSE d \in ColSet(t) : d.name = n
    IN  [x \in DOMAIN vals |->
            IF x # n THEN vals[x] ELSE IF c.type = "Integer" THEN NullInt ELSE NullStr]

Incomplete(t, S) == {Without(t, vals, n) : vals \in S, n \in UNION {DOMAIN v : v \in S}}

\* Rows with every value given, but for the timestamps that have a default.
Complete(t, db) ==
    CASE t = "users" ->
           [username : UserNames, firstname : {"Ana"}, lastname : {"Diaz"},
            email : Emails]
      [] t = "follower" ->
           [user_from_id : RefIds(db["users"]), user_to_id : RefIds(db["users"]),
            followed_at : {NullStr}]
      [] t = "post" ->
           [user_id : RefIds(db["users"]), caption : {"hello"},
            created_at : {NullStr}]
      [] t = "comment" ->
           [comment_text : {"nice"}, author_id : RefIds(db["users"]),
            post_id : RefIds(db["post"]), created_at : {NullStr}]
      [] t = "media" ->
           [type : MediaType \cup {"AUDIO"}, url : {"http://x/1"},
            post_id : RefIds(db["post"]), uploaded_at : {NullStr}]

\* The rows an insert is tried with: every value given, or one of them left out.
Candidates(t, db) == Complete(t, db) \cup Incomplete(t, Complete(t, db))

\* A successful insert stays within the bounds of the model.
WithinBounds(t, db) == TotalRows(db) < MaxRows /\ NextId(db[t]) <= MaxRows

(***************************************************************************)
(* The state machine.                                                      *)
(***************************************************************************)
Result(op, t, outcome) == [op |-> op, table |-> t, outcome |-> outcome]

\* No instagram.db, no diagram, nothing run yet.
Init ==
    /\ tables = {}
    /\ rows = [t \in TableNames |-> {}]
    /\ files = <<>>
    /\ last = Result("start", "", "ok")

\* CreateAllTables preceded by drop_all: the tables are made anew.
CreateAllTablesAnew(tbls, db) ==
    [tables |-> TableNames, rows |-> [t \in TableNames |-> {}]]

\* Base.metadata.create_all(engine), checkfirst=True: CREATE TABLE for the
\* tables of the metadata that the database does not have yet.
CreateAllTables(tbls, db) ==
    [tables |-> tbls \cup TableNames,
     rows |-> [t \in TableNames |-> IF t \in tbls THEN db[t] ELSE {}]]

CreateAll ==
    LET r == CreateAllTables(tables, rows)
    IN  /\ tables' = r.tables
        /\ rows' = r.rows
        /\ last' = Result("create_all", "", IF TableNames \subseteq tables
                                             THEN "present" ELSE "created")
        /\ UNCHANGED files

\* connection.execute(table.insert(), vals)
Insert(t, vals) ==
    LET outcome == InsertOutcome(t, vals, tables, rows)
    IN  /\ outcome = "ok" => WithinBounds(t, rows)
        /\ rows' = InsertRows(t, vals, tables, rows)
        /\ last' = Result("insert", t, outcome)
        /\ UNCHANGED <<tables, files>>

InsertUser == \E vals \in Candidates("users", rows) : Insert("users", vals)

InsertFollower == \E vals \in Candidates("follower", rows) : Insert("follower", vals)

InsertPost == \E vals \in Candidates("post", rows) : Insert("post", vals)

InsertComment == \E vals \in Candidates("comment", rows) : Insert("comment", vals)

InsertMedia == \E vals \in Candidates("media", rows) : Insert("media", vals)

\* connection.execute(table.delete().where(table.c.id == id))
Delete(t, id) ==
    /\ rows' = DeleteRows(t, id, tables, rows)
    /\ last' = Result("delete", t, DeleteOutcome(t, id, tables, rows))
    /\ UNCHANGED <<tables, files>>

DeleteUser == \E id \in Ids(rows["users"]) \cup {NextId(rows["users"])} : Delete("users", id)

DeletePost == \E id \in Ids(rows["post"]) \cup {NextId(rows["post"])} : Delete("post", id)

\* session.add(Class(**vals)); session.commit(): constructing the object
\* configures the mappers; the flush then inserts the row.
SessionAdd ==
    IF ConfigureMappers = "configured"
    THEN \E t \in TableNames : \E vals \in Candidates(t, rows) :
            /\ InsertOutcome(t, vals, tables, rows) = "ok" => WithinBounds(t, rows)
            /\ rows' = InsertRows(t, vals, tables, rows)
            /\ last' = Result("session.add", t, InsertOutcome(t, vals, tables, rows))
            /\ UNCHANGED <<tables, files>>
    ELSE \E t \in TableNames :
            /\ last' = Result("session.add", t, ConfigureMappers)
            /\ UNCHANGED <<tables, rows, files>>

\* session.delete(session.get(Class, id)); session.commit(): the query
\* configures the mappers; the flush deletes the object and, through the
\* relationships that cascade, the objects that belong to it.
SessionDelete(t, id) ==
    IF ConfigureMappers = "configured"
    THEN LET outcome == IF t \notin tables THEN "OperationalError"
                        ELSE IF id \notin Ids(rows[t]) THEN "norow"
                        ELSE "ok"
         IN  /\ rows' = IF outcome = "ok" THEN SessionDeleteRows(t, id, rows) ELSE rows
             /\ last' = Result("session.delete", t, outcome)
             /\ UNCHANGED <<tables, files>>
    ELSE /\ last' = Result("session.delete", t, ConfigureMappers)
         /\ UNCHANGED <<tables, rows, files>>

SessionDeleteUser ==
    \E id \in Ids(rows["users"]) \cup {NextId(rows["users"])} : SessionDelete("users", id)

SessionDeletePost ==
    \E id \in Ids(rows["post"]) \cup {NextId(rows["post"])} : SessionDelete("post", id)

\* _generate_colored_diagram()
GenerateColoredDiagram ==
    /\ files' = Render(files, BuildGraph)
    /\ last' = Result("diagram", "", IF "diagram.png" \in DOMAIN files
                                      THEN "overwritten" ELSE "created")
    /\ UNCHANGED <<tables, rows>>

Next ==
    \/ CreateAll
    \/ InsertUser
    \/ InsertFollower
    \/ InsertPost
    \/ InsertComment
    \/ InsertMedia
    \/ DeleteUser
    \/ DeletePost
    \/ SessionAdd
    \/ SessionDeleteUser
    \/ SessionDeletePost
    \/ GenerateColoredDiagram

Spec == Init /\ [][Next]_vars

\* The program restricted to the statements that write the users table.
NextUsers ==
    \/ CreateAll
    \/ InsertUser
    \/ DeleteUser
    \/ SessionAdd
    \/ SessionDeleteUser

SpecUsers == Init /\ [][NextUsers]_vars

\* The program restricted to the statements that write the post and media tables.
NextMedia ==
    \/ CreateAll
    \/ InsertPost
    \/ InsertMedia
    \/ DeletePost
    \/ SessionDeletePost

SpecMedia == Init /\ [][NextMedia]_vars

\* The script's two steps, with the users table being written in between.
NextDiagram ==
    \/ CreateAll
    \/ InsertUser
    \/ DeleteUser
    \/ GenerateColoredDiagram

SpecDiagram == Init /\ [][NextDiagram]_vars

(***************************************************************************)
(* Properties.                                                             *)
(***************************************************************************)
\* The class that is mapped to a table (class statements and __tablename__).
ClassTable ==
    [User |-> "users", Follower |-> "follower", Post |-> "post",
     Comment |-> "comment", Media |-> "media"]

ClassOf(t) == CHOOSE c \in DOMAIN ClassTable : ClassTable[c] = t

\* The connection point the diagram gives to a primary key.
PrimaryKeyPort == <<"ID">>

NodeIdx(body) == {i \in 1..Len(body) : body[i].kind = "node"}

EdgeIdx(body) == {i \in 1..Len(body) : body[i].kind = "edge"}

\* The connection points of the node(s) drawn under a name.
PortsOf(body, node) ==
    UNION {{body[i].label.rows[j].port : j \in 1..Len(body[i].label.rows)} :
           i \in {k \in NodeIdx(body) : <<body[k].name>> = node}}

\* The edge that stands for a foreign key of the schema.
EdgeOf(fk) ==
    [kind |-> "edge",
     tail |-> [node |-> <<ClassOf(fk[1])>>, port |-> <<fk[2]>>],
     head |-> [node |-> <<ClassOf(fk[3])>>, port |-> PrimaryKeyPort],
     arrowhead |-> "none"]

UserTaken(vals, rs) ==
    \E r \in rs : r.username = vals.username \/ r.email = vals.email

\* C4: no two users rows share a username or an email, and an insert of a user
\* (all values given) whose username or email is already stored fails with a
\* UNIQUE violation and leaves the table as it was.
C4_UsernameAndEmailUnique ==
    /\ \A r1, r2 \in rows["users"] :
          r1 # r2 => r1.username # r2.username /\ r1.email # r2.email
    /\ "users" \in tables =>
          \A vals \in Complete("users", rows) :
              UserTaken(vals, rows["users"]) =>
                  /\ InsertOutcome("users", vals, tables, rows) = "IntegrityError: UNIQUE"
                  /\ InsertRows("users", vals, tables, rows) = rows
    /\ last = Result("insert", "users", "IntegrityError: UNIQUE") => rows["users"] # {}

C4_DuplicateUserRefused ==
    /\ last = Result("insert", "users", "IntegrityError: UNIQUE")
    /\ Cardinality(rows["users"]) >= 2

C6_CreateAllIdempotent ==
    [][last'.op = "create_all" =>
          /\ tables' = TableNames
          /\ rows' = rows
          /\ CreateAllTables(tables', rows') = [tables |-> tables', rows |-> rows']]_vars

C6_CreateAllOnStoredRows ==
    /\ last = Result("create_all", "", "present")
    /\ rows["users"] # {}

\* C7: generating the diagram leaves the tables and their rows alone, leaves no
\* file but diagram.png behind, and generating it again rewrites diagram.png
\* with the same graph.
C7_DiagramIdempotent ==
    [][last'.op = "diagram" =>
          /\ tables' = tables /\ rows' = rows
          /\ DOMAIN files' = DOMAIN files \cup {"diagram.png"}
          /\ files'["diagram.png"] = BuildGraph.body
          /\ ("diagram.png" \in DOMAIN files => files' = files)]_vars

C7_DiagramGeneratedAgain ==
    /\ last = Result("diagram", "", "overwritten")
    /\ rows["users"] # {}

\* C8: the diagram has exactly six edges, one for each foreign key of the
\* schema, from the connection point of the referencing column to the primary
\* key connection point of the referenced table, both present in their nodes,
\* and without arrowhead.
C8_EdgesAreTheForeignKeys ==
    "diagram.png" \in DOMAIN files =>
        LET body == files["diagram.png"]
            E == EdgeIdx(body)
        IN  /\ Cardinality(E) = 6
            /\ \A fk \in ForeignKeys : Cardinality({i \in E : body[i] = EdgeOf(fk)}) = 1
            /\ \A i \in E : \E fk \in ForeignKeys : body[i] = EdgeOf(fk)
            /\ \A i \in E :
                  /\ body[i].arrowhead = "none"
                  /\ body[i].tail.port \in PortsOf(body, body[i].tail.node)
                  /\ body[i].head.port \in PortsOf(body, body[i].head.node)

C8_DiagramDrawn ==
    /\ "diagram.png" \in DOMAIN files
    /\ last.op = "diagram"
    /\ Cardinality(EdgeIdx(files["diagram.png"])) = Cardinality(ForeignKeys)

\* The rows that belong to user u: the posts, comments and follower rows that
\* carry its id, and the media of its posts.
RowsOfUser(u, db) ==
    [post |-> {p \in db["post"] : p.user_id = u},
     comment |-> {c \in db["comment"] : c.author_id = u},
     follower |-> {f \in db["follower"] : f.user_from_id = u \/ f.user_to_id = u},
     media |-> {m \in db["media"] :
                  \E p \in db["post"] : p.user_id = u /\ p.id = m.post_id}]

\* C1: deleting a user removes its posts, its comments, its media and the
\* follower rows in which it is the source or the target.
C1_DeleteUserCascades ==
    [][\A u \in Ids(rows["users"]) :
          (Delete("users", u) \/ SessionDelete("users", u)) =>
              LET mine == RowsOfUser(u, rows)
              IN  /\ rows'["post"] \cap mine.post = {}
                  /\ rows'["comment"] \cap mine.comment = {}
                  /\ rows'["follower"] \cap mine.follower = {}
                  /\ rows'["media"] \cap mine.media = {}]_vars

\* C2: deleting a post removes the comments and the media of that post, whoever
\* wrote them, and leaves the rows of the other posts as they are.
C2_DeletePostCascades ==
    [][\A p \in Ids(rows["post"]) :
          (Delete("post", p) \/ SessionDelete("post", p)) =>
              /\ \A c \in rows'["comment"] : c.post_id # p
              /\ \A m \in rows'["media"] : m.post_id # p
              /\ {c \in rows["comment"] : c.post_id # p} \subseteq rows'["comment"]
              /\ {m \in rows["media"] : m.post_id # p} \subseteq rows'["media"]
              /\ {q \in rows["post"] : q.id # p} \subseteq rows'["post"]]_vars

\* C3: a follower row is inserted only when its user_from_id and user_to_id are
\* ids of stored users; otherwise the insert fails with a foreign key violation
\* and the follower table stays as it was.
C3_FollowerNeedsUsers ==
    [][\A vals \in Complete("follower", rows) :
          (Insert("follower", vals) /\ "follower" \in tables) =>
              IF ForeignKeyOK("follower", vals, rows)
              THEN last'.outcome = "ok"
              ELSE /\ last'.outcome = "IntegrityError: FOREIGN KEY"
                   /\ rows'["follower"] = rows["follower"]]_vars

\* C9: every table has a node with its name as header and one body row for each
\* of its columns, the column's name being the row's connection point.
C9_OneRowPerColumn ==
    "diagram.png" \in DOMAIN files =>
        LET body == files["diagram.png"]
        IN  \A cls \in DOMAIN ClassTable :
                \E i \in NodeIdx(body) :
                    /\ body[i].name = cls
                    /\ body[i].label.header = cls
                    /\ Len(body[i].label.rows) = Len(Columns[ClassTable[cls]])
                    /\ \A c \in ColSet(ClassTable[cls]) :
                          (IF c.pk THEN PrimaryKeyPort ELSE <<c.name>>)
                              \in PortsOf(body, <<cls>>)

\* C10: every foreign key value stored is the id of a stored row of the table
\* it references.
C10_ReferentialIntegrity ==
    \A fk \in ForeignKeys : \A r \in rows[fk[1]] : r[fk[2]] \in Ids(rows[fk[3]])

====
